---- MODULE Spec2Model ----
(***************************************************************************)
(* solveMatrix of src/src/solver.cpp: Gaussian elimination with partial    *)
(* pivoting and back substitution, in place on A (N x N) and b (N).        *)
(*                                                                         *)
(* Numbers.  The source computes in double.  The model computes in exact   *)
(* arithmetic on finite values n/d * 10^(-e): a reduced fraction n/d and a *)
(* decimal exponent e.  The exponent lets one call hold entries of the     *)
(* size of the threshold 1e-10 (e = 10, 11) next to calls with entries of  *)
(* size one (e = 0) while the fractions stay small.  Rounding is not       *)
(* modelled.  A division by zero gives the one non-finite value NonFinite  *)
(* (the source would hold inf or NaN), which every operation propagates.   *)
(*                                                                         *)
(* Steps.  One action per loop body of the source at the level of rows:    *)
(* the pivot scan of one column, the threshold test, the row swap, the     *)
(* elimination of one row, the back substitution of one row.  Every action *)
(* records in acc the indices with which it reads or writes A and b, and   *)
(* in divisor the values it divides by.                                    *)
(***************************************************************************)
EXTENDS Integers, Sequences, FiniteSets, TLC

\* Dimension of the checked systems (the source fixes N = 10, solver.cpp:10;
\* the loops are uniform in N).
N == 3
\* Input entries of A are the integers -MaxVal..MaxVal times 10^(-scale).
MaxVal == 1
\* Input vectors b are (k, k+1, ..., k+N-1) for k in 0..MaxRhs (main's b is
\* the one with k = 1).
MaxRhs == 1
\* The threshold of the pivot test is 10^(-ThresholdExp) (1e-10).
ThresholdExp == 10

Idx == 0 .. N - 1

---------------------------------------------------------------------------
\* Exact numbers n/d * 10^(-e)

RECURSIVE GCD(_, _)
GCD(a, b) == IF b = 0 THEN a ELSE GCD(b, a % b)

AbsInt(k) == IF k < 0 THEN -k ELSE k

NonFinite == [n |-> 0, d |-> 0, e |-> 0]

IsFinite(x) == x.d # 0

Zero == [n |-> 0, d |-> 1, e |-> 0]

\* The value num/den * 10^(-ex) in canonical form (den # 0).
Norm(num, den, ex) ==
    IF num = 0 THEN Zero
    ELSE LET g == GCD(AbsInt(num), AbsInt(den))
             s == IF den < 0 THEN -1 ELSE 1
         IN [n |-> s * (num \div g), d |-> s * (den \div g), e |-> ex]

\* The integer k times 10^(-ex).
Num(k, ex) == Norm(k, 1, ex)

IsZero(x) == IsFinite(x) /\ x.n = 0

Neg(x) == IF IsFinite(x) THEN [x EXCEPT !.n = -x.n] ELSE NonFinite

\* std::abs
Abs(x) == IF IsFinite(x) THEN [x EXCEPT !.n = AbsInt(x.n)] ELSE NonFinite

\* x - y.  Two non-zero operands have the same exponent in every state the
\* algorithm reaches; no other case is defined.
Sub(x, y) ==
    CASE ~IsFinite(x) \/ ~IsFinite(y) -> NonFinite
      [] IsZero(y) -> x
      [] IsZero(x) -> Neg(y)
      [] x.e = y.e -> Norm(x.n * y.d - y.n * x.d, x.d * y.d, x.e)

Mul(x, y) ==
    IF ~IsFinite(x) \/ ~IsFinite(y) THEN NonFinite
    ELSE Norm(x.n * y.n, x.d * y.d, x.e + y.e)

\* x / y; a zero divisor gives a non-finite value.
Div(x, y) ==
    IF ~IsFinite(x) \/ ~IsFinite(y) \/ IsZero(y) THEN NonFinite
    ELSE Norm(x.n * y.d, x.d * y.n, x.e - y.e)

\* a * 10^k < c for naturals a, c >= 1 and any integer k, without forming
\* the power.
RECURSIVE ScaledLess(_, _, _)
ScaledLess(a, c, k) ==
    IF k = 0 THEN a < c
    ELSE IF k > 0 THEN ScaledLess(a, ((c - 1) \div 10) + 1, k - 1)
    ELSE ScaledLess(a \div 10, c, k + 1)

\* x < y for finite x, y >= 0.
Less(x, y) ==
    CASE IsZero(y) -> FALSE
      [] IsZero(x) -> TRUE
      [] OTHER -> ScaledLess(x.n * y.d, y.n * x.d, y.e - x.e)

\* std::abs(x) > std::abs(y); false when either is not finite.
AbsGreater(x, y) == IsFinite(x) /\ IsFinite(y) /\ Less(Abs(y), Abs(x))

Threshold == [n |-> 1, d |-> 1, e |-> ThresholdExp]

\* std::abs(x) < 1e-10; false when x is not finite.
BelowThreshold(x) == IsFinite(x) /\ Less(Abs(x), Threshold)

---------------------------------------------------------------------------
\* State

VARIABLES
    A,        \* the matrix, A[i][j]
    b,        \* the right-hand side, then the solution
    pc,       \* "scan", "check", "elim", "back", "done" or "ub"
    p,        \* the pivot step
    i,        \* the row of the elimination or back substitution loop
    max_row,  \* the row the scan selected
    ret,      \* "none" until the call returns, then "true" or "false"
    scale,    \* decimal exponent of the input entries of A
    A0, b0,   \* the inputs
    stepA, stepB, \* A and b as they were when pivot step p began
    swaps,    \* the pairs <<p, max_row>> exchanged so far
    acc,      \* indices the last action used on A (rows, columns) and on b
    divisor   \* the divisors of the last action

vars == <<A, b, pc, p, i, max_row, ret, scale, A0, b0, stepA, stepB,
          swaps, acc, divisor>>

NoAccess == [rows |-> {}, cols |-> {}, bs |-> {}]

InBounds(a) == a.rows \subseteq Idx /\ a.cols \subseteq Idx /\ a.bs \subseteq Idx

Vals == -MaxVal .. MaxVal

Rhs == {[r \in Idx |-> k + r] : k \in 0 .. MaxRhs}

\* Entries of size one, of the size of the threshold, and a tenth of it.
Scales == {0, ThresholdExp, ThresholdExp + 1}

Init ==
    /\ scale \in Scales
    /\ \E M \in [Idx -> [Idx -> Vals]] :
         A0 = [r \in Idx |-> [c \in Idx |-> Num(M[r][c], scale)]]
    /\ \E v \in Rhs : b0 = [r \in Idx |-> Num(v[r], 0)]
    /\ A = A0
    /\ b = b0
    /\ stepA = A0
    /\ stepB = b0
    /\ pc = "scan"
    /\ p = 0
    /\ i = 0
    /\ max_row = 0
    /\ ret = "none"
    /\ swaps = {}
    /\ acc = NoAccess
    /\ divisor = {}

---------------------------------------------------------------------------
\* solveMatrix

\* Mutant of ScanRows: the scan runs to row N (i <= N).
ScanRowsThroughN(q) == q + 1 .. N

\* Rows the scan of column q compares with the current maximum.
ScanRows(q) == q + 1 .. N - 1

\* Mutant of ScanFrom: no scan, the pivot row is row p.
ScanFromNoScan(M, q, r, m) == m

\* Mutant of ScanFrom: the comparison is >=, the last maximum wins.
RECURSIVE ScanFromLastMax(_, _, _, _)
ScanFromLastMax(M, q, r, m) ==
    IF r \notin q + 1 .. N - 1 THEN m
    ELSE ScanFromLastMax(M, q, r + 1,
                         IF ~AbsGreater(M[m][q], M[r][q]) THEN r ELSE m)

\* The scan loop from row r on, with the maximum so far in row m.
RECURSIVE ScanFrom(_, _, _, _)
ScanFrom(M, q, r, m) ==
    IF r \notin ScanRows(q) THEN m
    ELSE ScanFrom(M, q, r + 1, IF AbsGreater(M[r][q], M[m][q]) THEN r ELSE m)

\* Rows below the pivot row, columns right of the pivot column.
ElimRows(q) == q + 1 .. N - 1

ElimCols(q) == q + 1 .. N - 1

\* Undefined behaviour: an index out of range was used.
Trap ==
    /\ pc' = "ub"
    /\ UNCHANGED <<A, b, p, i, max_row, ret, scale, A0, b0, stepA, stepB,
                   swaps, divisor>>

\* 1. Partial pivoting: the row with the largest magnitude in column p.
FindPivot ==
    /\ pc = "scan"
    /\ acc' = [rows |-> {p} \cup ScanRows(p), cols |-> {p}, bs |-> {}]
    /\ IF InBounds(acc')
       THEN /\ max_row' = ScanFrom(A, p, p + 1, p)
            /\ pc' = "check"
            /\ divisor' = {}
            /\ UNCHANGED <<A, b, p, i, ret, scale, A0, b0, stepA, stepB, swaps>>
       ELSE Trap

\* Mutant of NearZeroPivot: the comparison is reversed (> 1e-10).
NearZeroPivotReversed(x) == AbsGreater(x, Threshold)

\* Mutant of NearZeroPivot: the test is for an exact zero.
NearZeroPivotExactZero(x) == IsZero(x)

\* Mutant of NearZeroPivot: no test.
NearZeroPivotNever(x) == FALSE

\* The test of the pivot against the threshold.
NearZeroPivot(x) == BelowThreshold(x)

\* Mutant of ReturnFalse: the rows are swapped before the test.
ReturnFalseAfterSwap ==
    /\ pc = "check"
    /\ BelowThreshold(A[max_row][p])
    /\ acc' = [rows |-> {max_row, p}, cols |-> Idx, bs |-> {max_row, p}]
    /\ A' = [k \in Idx |-> IF k = p THEN A[max_row]
                            ELSE IF k = max_row THEN A[p] ELSE A[k]]
    /\ b' = [k \in Idx |-> IF k = p THEN b[max_row]
                            ELSE IF k = max_row THEN b[p] ELSE b[k]]
    /\ pc' = "done"
    /\ ret' = "false"
    /\ divisor' = {}
    /\ UNCHANGED <<p, i, max_row, scale, A0, b0, stepA, stepB, swaps>>

\* return false
ReturnFalse ==
    /\ pc = "check"
    /\ NearZeroPivot(A[max_row][p])
    /\ acc' = [rows |-> {max_row}, cols |-> {p}, bs |-> {}]
    /\ pc' = "done"
    /\ ret' = "false"
    /\ divisor' = {}
    /\ UNCHANGED <<A, b, p, i, max_row, scale, A0, b0, stepA, stepB, swaps>>

\* Mutant of SwapRowsOf: row s is copied to row r and not replaced.
SwapRowsOfOneWay(M, r, s) == [k \in Idx |-> IF k = r THEN M[s] ELSE M[k]]

\* A with rows r and s exchanged over all N columns.
SwapRowsOf(M, r, s) ==
    [k \in Idx |-> IF k = r THEN M[s] ELSE IF k = s THEN M[r] ELSE M[k]]

\* Mutant of SwapEntries: b is not swapped.
SwapEntriesNone(v, r, s) == v

\* v with entries r and s exchanged.
SwapEntries(v, r, s) ==
    [k \in Idx |-> IF k = r THEN v[s] ELSE IF k = s THEN v[r] ELSE v[k]]

\* The state after the elimination loop of step q ended.
StepDone(q, M, v) ==
    /\ p' = q + 1
    /\ stepA' = M
    /\ stepB' = v
    /\ IF q + 1 < N
       THEN pc' = "scan" /\ i' = q + 1 /\ max_row' = q + 1
       ELSE pc' = "back" /\ i' = N - 1 /\ max_row' = max_row

\* Swap rows max_row and p in both A and b.
SwapRows ==
    /\ pc = "check"
    /\ ~NearZeroPivot(A[max_row][p])
    /\ acc' = IF max_row # p
              THEN [rows |-> {max_row, p}, cols |-> Idx, bs |-> {max_row, p}]
              ELSE [rows |-> {max_row}, cols |-> {p}, bs |-> {}]
    /\ divisor' = {}
    /\ A' = IF max_row # p THEN SwapRowsOf(A, p, max_row) ELSE A
    /\ b' = IF max_row # p THEN SwapEntries(b, p, max_row) ELSE b
    /\ swaps' = IF max_row # p THEN swaps \cup {<<p, max_row>>} ELSE swaps
    /\ IF ElimRows(p) # {}
       THEN /\ pc' = "elim"
            /\ i' = p + 1
            /\ UNCHANGED <<p, max_row, stepA, stepB>>
       ELSE StepDone(p, A', b')
    /\ UNCHANGED <<ret, scale, A0, b0>>

\* Mutant of EliminatedRow: A[i][p] is not set to 0.0.
EliminatedRowNoZero(M, q, r, factor) ==
    [c \in Idx |->
        IF c \in q + 1 .. N - 1 THEN Sub(M[r][c], Mul(factor, M[q][c]))
        ELSE M[r][c]]

\* Row r of M after the elimination of column q with the given factor.
EliminatedRow(M, q, r, factor) ==
    [c \in Idx |->
        IF c \in ElimCols(q) THEN Sub(M[r][c], Mul(factor, M[q][c]))
        ELSE IF c = q THEN Zero
        ELSE M[r][c]]

\* 2. Elimination of row i.
EliminateRow ==
    /\ pc = "elim"
    /\ acc' = [rows |-> {i, p}, cols |-> {p} \cup ElimCols(p), bs |-> {i, p}]
    /\ IF InBounds(acc')
       THEN LET factor == Div(A[i][p], A[p][p])
            IN /\ divisor' = {A[p][p]}
               /\ b' = [b EXCEPT ![i] = Sub(b[i], Mul(factor, b[p]))]
               /\ A' = [A EXCEPT ![i] = EliminatedRow(A, p, i, factor)]
               /\ IF i + 1 \in ElimRows(p)
                  THEN /\ i' = i + 1
                       /\ UNCHANGED <<pc, p, max_row, stepA, stepB>>
                  ELSE StepDone(p, A', b')
               /\ UNCHANGED <<ret, scale, A0, b0, swaps>>
       ELSE Trap

\* Columns of the terms already solved in row r.
SolvedCols(r) == r + 1 .. N - 1

\* b[r] minus the terms A[r][c] * b[c] for the columns c from c0 on.
RECURSIVE SubtractSolved(_, _, _, _, _)
SubtractSolved(M, v, r, c, s) ==
    IF c \notin SolvedCols(r) THEN s
    ELSE SubtractSolved(M, v, r, c + 1, Sub(s, Mul(M[r][c], v[c])))

\* Back substitution of row i; after row 0, return true.
BackSubstituteRow ==
    /\ pc = "back"
    /\ acc' = [rows |-> {i}, cols |-> {i} \cup SolvedCols(i),
               bs |-> {i} \cup SolvedCols(i)]
    /\ IF InBounds(acc')
       THEN /\ divisor' = {A[i][i]}
            /\ b' = [b EXCEPT
                       ![i] = Div(SubtractSolved(A, b, i, i + 1, b[i]), A[i][i])]
            /\ IF i - 1 >= 0
               THEN i' = i - 1 /\ UNCHANGED <<pc, ret>>
               ELSE i' = i /\ pc' = "done" /\ ret' = "true"
            /\ UNCHANGED <<A, p, max_row, scale, A0, b0, stepA, stepB, swaps>>
       ELSE Trap

Next ==
    \/ FindPivot
    \/ ReturnFalse
    \/ SwapRows
    \/ EliminateRow
    \/ BackSubstituteRow

Spec == Init /\ [][Next]_vars

---------------------------------------------------------------------------
\* Definitions the properties use

\* x + y
Add(x, y) == Sub(x, Neg(y))

\* The sum of M[r][c] * v[c] over the columns c from c0 on.
RECURSIVE DotFrom(_, _, _, _)
DotFrom(M, v, r, c) ==
    IF c >= N THEN Zero ELSE Add(Mul(M[r][c], v[c]), DotFrom(M, v, r, c + 1))

\* M * v = w
Solves(M, v, w) == \A r \in Idx : DotFrom(M, v, r, 0) = w[r]

\* The sequence s without its k-th element.
Without(s, k) == SubSeq(s, 1, k - 1) \o SubSeq(s, k + 1, Len(s))

\* The determinant of the integer numerators of rows r..N-1 of M over the
\* columns cs, by expansion along row r (the sum runs over cs[k..]).
RECURSIVE MinorDet(_, _, _, _)
MinorDet(M, r, cs, k) ==
    IF r = N THEN (IF k = 1 THEN 1 ELSE 0)
    ELSE IF k > Len(cs) THEN 0
    ELSE (IF k % 2 = 1 THEN 1 ELSE -1) * M[r][cs[k]].n
             * MinorDet(M, r + 1, Without(cs, k), 1)
         + MinorDet(M, r, cs, k + 1)

NonSingular(M) == MinorDet(M, 0, [k \in 1 .. N |-> k - 1], 1) # 0

HasZeroRow(M) == \E r \in Idx : \A c \in Idx : IsZero(M[r][c])

HasIdenticalRows(M) == \E r, s \in Idx : r # s /\ M[r] = M[s]

IsIdentity(M) ==
    \A r, c \in Idx : M[r][c] = (IF r = c THEN Num(1, 0) ELSE Zero)

Returned == pc = "done"

\* Rows p..N-1, the rows not yet processed at pivot step q.
Unprocessed(q) == q .. N - 1

\* Row r is fixed: it was the pivot row of a step that passed the test.
RowFixed(r) == r < p \/ (r = p /\ pc = "elim")

---------------------------------------------------------------------------
\* Properties

\* C1: whenever solveMatrix returns true, the vector left in b solves the
\* original system: A0 * b = b0, exactly.
C1_SolutionSolvesOriginal ==
    (Returned /\ ret = "true") => Solves(A0, b, b0)

\* C1 witness: a non-singular system solved with a row swap and a solution
\* that is not an integer vector.
C1_Witness ==
    /\ Returned /\ ret = "true" /\ NonSingular(A0)
    /\ swaps # {}
    /\ \E r \in Idx : b[r].d > 1

\* C2: an input with an all-zero row, or with two identical rows, never
\* returns true and ends returning false.
C2_SingularRowsFail ==
    (HasZeroRow(A0) \/ HasIdenticalRows(A0)) =>
        (ret # "true" /\ (Returned => ret = "false"))

\* C2 witness: two identical non-zero rows, and the failure comes only at the
\* last pivot step.
C2_Witness ==
    /\ Returned /\ ret = "false" /\ p = N - 1
    /\ HasIdenticalRows(A0) /\ ~HasZeroRow(A0)

\* No unprocessed row has in column q a magnitude above the threshold.
NoRowExceeds(M, q) == \A r \in Unprocessed(q) : ~AbsGreater(M[r][q], Threshold)

\* Every unprocessed row has in column q a magnitude below the threshold.
AllRowsBelow(M, q) == \A r \in Unprocessed(q) : BelowThreshold(M[r][q])

\* C3 as stated: the call returns false exactly at a pivot step where no
\* unprocessed row has a magnitude in column p that exceeds 1e-10.
C3_FailsIffNoneExceeds ==
    [][((pc = "check" /\ NoRowExceeds(A, p)) <=> ret' = "false")]_vars

\* C3 amended: the call returns false exactly at a pivot step where every
\* unprocessed row has a magnitude in column p below 1e-10 (a magnitude
\* equal to 1e-10 is accepted as pivot); it returns nothing else than true
\* or false.
C3_FailsIffAllBelow ==
    [][/\ (pc = "check" /\ AllRowsBelow(A, p)) <=> ret' = "false"
       /\ pc' = "done" => ret' \in {"true", "false"}
       /\ pc' # "done" => ret' = "none"]_vars

\* C3 witness: a failure at a later step on a pivot that is not zero.
C3_Witness ==
    /\ Returned /\ ret = "false" /\ p > 0
    /\ \E r \in Unprocessed(p) : ~IsZero(A[r][p])

\* C4: every index used on A and b lies in 0..N-1 on every path, the one
\* that returns false included; no undefined behaviour is reached, and the
\* call is either inside one of its loops or has returned true or false.
C4_IndicesInBounds ==
    /\ InBounds(acc)
    /\ pc \in {"scan", "check", "elim", "back", "done"}
    /\ p \in 0 .. N /\ i \in Idx /\ max_row \in Idx
    /\ Returned => ret \in {"true", "false"}
    /\ ~Returned => ret = "none"

\* C4 witness: the path that returns false at the last pivot step, whose
\* last access is A[N-1][N-1].
C4_Witness ==
    /\ Returned /\ ret = "false"
    /\ acc = [rows |-> {N - 1}, cols |-> {N - 1}, bs |-> {}]

\* C5: once pivot step c is complete, every entry below the diagonal in
\* column c is exactly zero and stays zero; after a call that returns true
\* A is upper triangular.
C5_SubdiagonalZero ==
    /\ \A c \in Idx : \A r \in Idx : (r > c /\ c < p) => A[r][c] = Zero
    /\ pc = "elim" => \A r \in p + 1 .. i - 1 : A[r][p] = Zero
    /\ (Returned /\ ret = "true") =>
           \A r, c \in Idx : r > c => A[r][c] = Zero

\* C5 witness: a call that returned true after a swap at a step later than
\* the first, with a non-zero entry above the diagonal.
C5_Witness ==
    /\ Returned /\ ret = "true"
    /\ \E s \in swaps : s[1] >= 1
    /\ \E r, c \in Idx : r < c /\ ~IsZero(A[r][c])

\* C6: for A the identity and any b, the call returns true, leaves b as it
\* was, and swaps no row.
C6_Identity ==
    IsIdentity(A0) =>
        /\ swaps = {}
        /\ ret # "false"
        /\ Returned => (ret = "true" /\ b = b0)

\* C6 witness: the identity with a non-zero b, returned.
C6_Witness ==
    /\ IsIdentity(A0) /\ Returned
    /\ \A r \in Idx : ~IsZero(b0[r])

\* A0[0][0] is zero and a lower row has a non-zero entry in column 0.
NeedsFirstSwap(M) == IsZero(M[0][0]) /\ \E r \in Idx : r > 0 /\ ~IsZero(M[r][0])

\* The lowest row of the largest magnitude in column 0 of M.
FirstPivotRow(M) ==
    CHOOSE r \in Idx :
        /\ \A s \in Idx : ~AbsGreater(M[s][0], M[r][0])
        /\ \A s \in Idx : s < r => AbsGreater(M[r][0], M[s][0])

\* Rows 0 and r of the inputs are exchanged in A and b, all else as it was.
FirstSwapDone(r) ==
    /\ r > 0
    /\ swaps = {<<0, r>>}
    /\ A[0] = A0[r] /\ A[r] = A0[0]
    /\ b[0] = b0[r] /\ b[r] = b0[0]
    /\ \A s \in Idx \ {0, r} : A[s] = A0[s] /\ b[s] = b0[s]

\* C7 as stated: a non-singular A with a zero leading entry and a non-zero
\* entry below it has row 0 exchanged with the pivot row in A and b, returns
\* true, and b solves the original system.
C7_SwapThenSolved ==
    (NeedsFirstSwap(A0) /\ NonSingular(A0)) =>
        /\ (pc = "elim" /\ p = 0 /\ i = 1) => FirstSwapDone(FirstPivotRow(A0))
        /\ Returned => (ret = "true" /\ <<0, FirstPivotRow(A0)>> \in swaps
                        /\ Solves(A0, b, b0))

\* C7 amended: for such an A, when the call returns true, row 0 was
\* exchanged with the pivot row in A and b and b solves the original system;
\* when it returns false, the pivot the scan selected at the failing step is
\* below 1e-10 in magnitude (which a non-singular A of small entries has).
C7_SwapThenSolvedUnlessTiny ==
    (NeedsFirstSwap(A0) /\ NonSingular(A0)) =>
        /\ (pc = "elim" /\ p = 0 /\ i = 1) => FirstSwapDone(FirstPivotRow(A0))
        /\ (Returned /\ ret = "true") =>
               (<<0, FirstPivotRow(A0)>> \in swaps /\ Solves(A0, b, b0))
        /\ (Returned /\ ret = "false") =>
               (BelowThreshold(A[max_row][p])
                /\ \A r \in Unprocessed(p) : ~AbsGreater(A[r][p], A[max_row][p]))

\* C7 witness: such a system, returned true, whose first pivot row is the
\* last row.
C7_Witness ==
    /\ NeedsFirstSwap(A0) /\ NonSingular(A0)
    /\ Returned /\ ret = "true"
    /\ <<0, N - 1>> \in swaps

\* C8: the row the scan selects at step p is an unprocessed row of the
\* largest magnitude in column p, and the lowest such row.
C8_PivotIsFirstMaximum ==
    pc = "check" =>
        /\ max_row \in Unprocessed(p)
        /\ \A r \in Unprocessed(p) : ~AbsGreater(A[r][p], A[max_row][p])
        /\ \A r \in Unprocessed(p) :
               r < max_row => AbsGreater(A[max_row][p], A[r][p])

\* C8 witness: the maximum of column 0 is not in row 0 and two rows hold it.
C8_Witness ==
    /\ pc = "check" /\ p = 0 /\ max_row = 1
    /\ ~IsZero(A[1][0])
    /\ Abs(A[2][0]) = Abs(A[1][0])
    /\ AbsGreater(A[1][0], A[0][0])

\* C9: every divisor is finite and not below 1e-10 in magnitude: the pivot
\* of step p passes the test when the step fixes it, the elimination of
\* step p divides by it, a fixed pivot row is never modified again, and
\* back substitution divides by A[i][i] of such a row.
C9_DivisorsAboveThreshold ==
    [][/\ \A x \in divisor' : IsFinite(x) /\ ~BelowThreshold(x)
       /\ (pc = "check" /\ ret' # "false") => ~BelowThreshold(A'[p][p])
       /\ \A r \in Idx : RowFixed(r) => A'[r] = A[r]
       /\ pc = "elim" => divisor' = {A[p][p]}
       /\ pc = "back" => (RowFixed(i) /\ divisor' = {A[i][i]})
      ]_vars

\* C9 witness: a back substitution step divided by a pivot that is exactly
\* 1e-10 in magnitude.
C9_Witness ==
    /\ Returned /\ ret = "true"
    /\ \E x \in divisor : Abs(x) = Threshold

\* C10: after a return of false at step p, A and b are as they were when
\* step p began (when step p-1 finished); at p = 0 they are the inputs.
C10_FailureChangesNothing ==
    ret = "false" =>
        /\ A = stepA /\ b = stepB
        /\ p = 0 => (A = A0 /\ b = b0)

\* C10 witness: a failure at a later step, after A was modified.
C10_Witness ==
    /\ Returned /\ ret = "false" /\ p >= 1
    /\ A # A0 /\ b # b0

====
